---- MODULE Spec2Model ----
(***************************************************************************)
(* Model of the proxy chain of gost (chain.go): the node registry, the     *)
(* HTTP/2 shortcut activation, and the connection-building calls Dial and  *)
(* GetConn, executed one Go statement group at a time on a call stack.     *)
(* Go indexes are 0-based and are kept so (http2NodeIndex, loop index i);  *)
(* TLA+ sequences are 1-based, so Go's nodes[i] is nodes[i + 1] here.      *)
(***************************************************************************)
EXTENDS Integers, Sequences, FiniteSets, TLC

\* ------------------------------------------------------------------ bounds
MaxNodes == 3
MaxBatch == 2
MaxAddrLen == 1
MaxWrites == 2

\* the sentinel NewProxyChain stores in http2NodeIndex
NoIndex == -1

\* --------------------------------------------------------------- data types
\* characters a dial target is made of; ":" is what Dial looks for
AddrChars == {"h", ":"}

Transports == {"tcp", "http2"}

Digits == <<"0", "1", "2", "3", "4", "5", "6", "7", "8", "9">>

\* ProxyNode: only the fields chain.go reads. Addresses are sequences of
\* characters; chain.go never compares two of them, so the node registered
\* at position p is given the address "n<p>", which tells the hops apart.
NodeAt(p, transport) == [Addr |-> <<"n", Digits[p + 1]>>, Transport |-> transport]

RECURSIVE SeqsUpTo(_, _)
SeqsUpTo(S, n) ==
    IF n = 0 THEN {<<>>}
    ELSE LET shorter == SeqsUpTo(S, n - 1)
         IN  shorter \cup {Append(s, x) : s \in {t \in shorter : Len(t) = n - 1}, x \in S}

TargetAddrs == SeqsUpTo(AddrChars, MaxAddrLen)

\* the argument lists of NewProxyChain and AddProxyNode when the registry
\* holds `start` nodes
NodeBatches(start) ==
    {[j \in 1..Len(ts) |-> NodeAt(start + j - 1, ts[j])] :
        ts \in SeqsUpTo(Transports, MaxBatch)}

\* a textual node specification "<transport>://n<p>" as the sequence of its
\* parts, and one that the parser rejects
BadString == <<"%">>

NodeString(p, transport) == <<transport, "n", Digits[p + 1]>>

\* the argument lists of AddProxyNodeString when the registry holds `start`
\* nodes
StringBatches(start) ==
    {[j \in 1..Len(ks) |-> IF ks[j] = "%" THEN BadString
                                           ELSE NodeString(start + j - 1, ks[j])] :
        ks \in SeqsUpTo(Transports \cup {"%"}, MaxBatch)}

Front(s) == SubSeq(s, 1, Len(s) - 1)

\* Go's s[low:] on a slice of length Len(s); the caller checks low <= Len(s)
SliceFrom(s, low) == SubSeq(s, low + 1, Len(s))

\* ------------------------------------------------------------ connections
\* A net.Conn value: the stream at the bottom (raw TCP to an address, or an
\* HTTP/2 tunnel stream to the shortcut node) and the ProxyConn layers
\* wrapped around it, innermost first.
NoAddr == <<>>

NilConn == [base |-> "nil", to |-> NoAddr, layers |-> <<>>]

\* a nil *ProxyConn stored in a net.Conn interface value (not equal to nil)
TypedNilConn == [base |-> "nil *ProxyConn", to |-> NoAddr, layers |-> <<>>]

TcpConn(addr) == [base |-> "tcp", to |-> addr, layers |-> <<>>]

\* tls.Client(conn, cfg): the TLS client side over a dialled connection
TlsClient(conn) == [conn EXCEPT !.base = "tls"]

\* http2Conn{r: resp.Body, w: pw}
Http2Conn(host) == [base |-> "http2", to |-> host, layers |-> <<>>]

\* NewProxyConn(conn, node): a layer for node on top of conn
NewProxyConn(conn, node) == [conn EXCEPT !.layers = Append(@, node)]

\* what ProxyConn.Close reaches: the layer itself and everything beneath it
LayersBeneath(conn) ==
    {[conn EXCEPT !.layers = SubSeq(conn.layers, 1, n)] : n \in 0..Len(conn.layers)}

NoErr == "nil"

VARIABLES
    nodes,           \* c.nodes
    lastNode,        \* c.lastNode, as the index it points at (NoIndex: nil)
    http2NodeIndex,  \* c.http2NodeIndex
    http2Enabled,    \* c.http2Enabled
    http2Client,     \* c.http2Client: the dial closure's nodes, and its pooled connection
    status,          \* "idle", "running", "returned", "panicked"
    call,            \* the entry point running or last run, with its argument
    stack,           \* the Go call stack of the running call, outermost first
    ret,             \* the values the last returning function returned
    events,          \* what the running call did to its collaborators, in order
    resp,            \* the response the running call's tunnel request got, and its body
    tcalls,          \* concurrent callers opening tunnel streams: their locals
    pipes,           \* the io.Pipe pairs created so far: the bytes in each
    bodies           \* the response bodies handed out so far: request pipe, bytes

\* the state of the concurrent tunnel openings
tunnelVars == <<tcalls, pipes, bodies>>

vars == <<nodes, lastNode, http2NodeIndex, http2Enabled, http2Client,
          status, call, stack, ret, events, resp, tunnelVars>>

config == <<nodes, lastNode, http2NodeIndex, http2Enabled>>

NoClient == [made |-> FALSE, dialNodes |-> <<>>, up |-> FALSE]

NoCall == [fn |-> "none", addr |-> NoAddr]

NoRet == [conn |-> NilConn, err |-> NoErr]

\* no response received
NoResp == [status |-> "none", closed |-> FALSE]

\* the callers of the concurrent tunnel openings
Callers == {1, 2}

NoPipe == 0

\* a caller that has not called yet
NoTunnelCall == [pc |-> "idle", pw |-> NoPipe, body |-> NoPipe, r |-> NoPipe, w |-> NoPipe,
                 wrote |-> 0, got |-> <<>>]

NoTunnels ==
    /\ tcalls = [c \in Callers |-> NoTunnelCall]
    /\ pipes = <<>>
    /\ bodies = <<>>

\* NewProxyChain(nodes...)
Init ==
    /\ nodes \in NodeBatches(0)
    /\ lastNode = NoIndex
    /\ http2NodeIndex = NoIndex
    /\ http2Enabled = FALSE
    /\ http2Client = NoClient
    /\ status = "idle"
    /\ call = NoCall
    /\ stack = <<>>
    /\ ret = NoRet
    /\ events = <<>>
    /\ resp = NoResp
    /\ NoTunnels

\* no call is in progress: the caller may configure or start a call
Quiet == status \in {"idle", "returned"}

\* call, stack, ret and events describe the latest call under the
\* configuration it ran with; a change of configuration forgets them
Forgotten ==
    /\ status' = "idle"
    /\ call' = NoCall
    /\ stack' = <<>>
    /\ ret' = NoRet
    /\ events' = <<>>
    /\ resp' = NoResp

\* ---------------------------------------------------------- node registry
\* AddProxyNode(node...)
AddProxyNode(batch) ==
    /\ Quiet
    /\ Len(nodes) + Len(batch) <= MaxNodes
    /\ nodes' = nodes \o batch
    /\ Forgotten
    /\ UNCHANGED <<lastNode, http2NodeIndex, http2Enabled, http2Client>>
    /\ UNCHANGED tunnelVars

ErrParse == "invalid node"

\* ParseProxyNode(s): the node a specification describes, or the parser's
\* error
ParseProxyNode(sn) ==
    IF Len(sn) = 3 /\ sn[1] \in Transports
    THEN [node |-> [Addr |-> <<sn[2], sn[3]>>, Transport |-> sn[1]], err |-> NoErr]
    ELSE [node |-> [Addr |-> NoAddr, Transport |-> ""], err |-> ErrParse]

\* the loop of AddProxyNodeString from entry j on, lines 36-42: the nodes it
\* appends and the error it returns
RECURSIVE ParseLoop(_, _)
ParseLoop(snode, j) ==
    IF j > Len(snode)
    THEN [added |-> <<>>, err |-> NoErr]
    ELSE LET parsed == ParseProxyNode(snode[j])
         IN  IF parsed.err # NoErr
             THEN [added |-> <<>>, err |-> parsed.err]
             ELSE LET rest == ParseLoop(snode, j + 1)
                  IN  [added |-> <<parsed.node>> \o rest.added, err |-> rest.err]

\* AddProxyNodeString(snode...): ret holds the error it returned
AddProxyNodeString(snode) ==
    /\ Quiet
    /\ Len(nodes) + Len(snode) <= MaxNodes
    /\ LET done == ParseLoop(snode, 1)
       IN  /\ nodes' = nodes \o done.added
           /\ ret' = [conn |-> NilConn, err |-> done.err]
    /\ status' = "idle"
    /\ call' = [fn |-> "AddProxyNodeString", addr |-> NoAddr]
    /\ stack' = <<>>
    /\ events' = <<>>
    /\ resp' = NoResp
    /\ UNCHANGED <<lastNode, http2NodeIndex, http2Enabled, http2Client>>
    /\ UNCHANGED tunnelVars

\* c.Nodes()
NodesOf == nodes

\* ------------------------------------------------------ shortcut activation
IsOtherNode(node) == node.Transport # "http2"

\* the test of the scan loop in TryEnableHttp2, line 64
IsHttp2Node(node) == node.Transport = "http2"

Http2Indexes(ns) == {i \in 0..(Len(ns) - 1) : IsHttp2Node(ns[i + 1])}

LastHttp2Index(ns) ==
    CHOOSE i \in Http2Indexes(ns) : \A j \in Http2Indexes(ns) : j <= i

\* the index at which the scan loop of TryEnableHttp2 breaks
FirstHttp2Index(ns) ==
    CHOOSE i \in Http2Indexes(ns) : \A j \in Http2Indexes(ns) : i <= j

IndexNotRecorded(i) == NoIndex

\* line 71: the index the scan loop records
RecordedIndex(i) == i

\* initHttp2Client(addr, config, nodes...): the client whose DialTLS closure
\* captured `prefix`; a new transport has no connection yet
InitHttp2Client(prefix) == [made |-> TRUE, dialNodes |-> prefix, up |-> FALSE]

\* TryEnableHttp2()
TryEnableHttp2 ==
    /\ Quiet
    /\ IF Len(nodes) = 0
       THEN UNCHANGED <<lastNode, http2NodeIndex, http2Enabled, http2Client>>
       ELSE /\ lastNode' = Len(nodes) - 1
            /\ IF Http2Indexes(nodes) = {}
               THEN UNCHANGED <<http2NodeIndex, http2Enabled, http2Client>>
               ELSE LET i == FirstHttp2Index(nodes)
                    IN  /\ http2Client' = InitHttp2Client(SubSeq(nodes, 1, i))
                        /\ http2Enabled' = TRUE
                        /\ http2NodeIndex' = RecordedIndex(i)
    /\ Forgotten
    /\ UNCHANGED nodes
    /\ UNCHANGED tunnelVars

\* c.Http2Enabled()
Http2Enabled == http2Enabled

\* ------------------------------------------------------------- call stack
\* One activation of a Go function: its position and its local variables.
Frame(fn, ns, addr) ==
    [fn |-> fn, pc |-> "entry", nodes |-> ns, addr |-> addr,
     cc |-> NilConn, conn |-> NilConn, i |-> 0]

Top == stack[Len(stack)]

At(fn, pc) == status = "running" /\ Top.fn = fn /\ Top.pc = pc

\* the running function returns (c, e) to its caller
Returns(c, e) ==
    /\ stack' = Front(stack)
    /\ ret' = [conn |-> c, err |-> e]
    /\ status' = IF Len(stack) = 1 THEN "returned" ELSE "running"

\* the running function, now as frame f, calls another one
CallsFrom(f, frame) ==
    /\ stack' = Append([stack EXCEPT ![Len(stack)] = f], frame)
    /\ ret' = NoRet
    /\ status' = "running"

\* the running function calls another one and will resume at pc
Calls(pc, frame) == CallsFrom([Top EXCEPT !.pc = pc], frame)

\* the running function goes on as frame f
Goes(f) ==
    /\ stack' = [stack EXCEPT ![Len(stack)] = f]
    /\ ret' = NoRet
    /\ status' = "running"

\* a run-time panic (index or slice bounds out of range): nothing recovers it
Panics ==
    /\ status' = "panicked"
    /\ stack' = stack
    /\ ret' = NoRet

\* whether the shortcut client's dial function is running
InDialTLS == \E n \in DOMAIN stack : stack[n].fn = "DialTLS"

\* one completed call of a collaborator, by function fn: op on connection
\* `on` with address addr, whether it succeeded, and whether it was made
\* under the shortcut client's dial function
Ev(fn, op, addr, on, ok) ==
    [fn |-> fn, op |-> op, addr |-> addr, on |-> on, ok |-> ok, inDial |-> InDialTLS]

ErrEmptyChain == "empty chain"
ErrDial == "dial error"
ErrConnect == "connect error"
ErrHandshake == "handshake error"
ErrDo == "round trip error"
ErrNotEnabled == "HTTP2 not enabled"
StatusOK == "200 OK"
StatusUnavailable == "503 Service Unavailable"
StatusNotFound == "404 Not Found"

\* ------------------------------------------------------------ entry points
Contains(addr, ch) == \E n \in DOMAIN addr : addr[n] = ch

NeverDefaultPort(addr) == addr

\* Dial, lines 100-102: the address handed to dialWithNodes
DialAddr(addr) ==
    IF ~Contains(addr, ":") THEN addr \o <<":", "8", "0">> ELSE addr

\* Dial(addr) is called
Dial(addr) ==
    /\ Quiet
    /\ call' = [fn |-> "Dial", addr |-> addr]
    /\ stack' = <<Frame("Dial", <<>>, addr)>>
    /\ status' = "running"
    /\ ret' = NoRet
    /\ events' = <<>>
    /\ UNCHANGED <<config, http2Client>>
    /\ resp' = NoResp
    /\ UNCHANGED tunnelVars

DialBody ==
    /\ At("Dial", "entry")
    /\ Calls("tail", Frame("dialWithNodes", nodes, DialAddr(Top.addr)))
    /\ UNCHANGED <<config, http2Client, call, events>>
    /\ UNCHANGED <<resp, tunnelVars>>

\* return f(...): the callee's results are the caller's
TailReturn ==
    /\ status = "running"
    /\ Top.pc = "tail"
    /\ Returns(ret.conn, ret.err)
    /\ UNCHANGED <<config, http2Client, call, events>>
    /\ UNCHANGED <<resp, tunnelVars>>

NeverEmpty(ns) == FALSE

\* GetConn, line 110
IsEmptyChain(ns) == Len(ns) = 0

SkipsOneMore(ns) == SubSeq(ns, http2NodeIndex + 3, Len(ns))

\* nodes[c.http2NodeIndex+1:], lines 115 and 129
AfterShortcut(ns) == SliceFrom(ns, http2NodeIndex + 1)

\* whether that slice expression is within bounds (low <= len)
SliceInRange(ns) == http2NodeIndex + 1 <= Len(ns)

\* GetConn() is called
GetConn ==
    /\ Quiet
    /\ call' = [fn |-> "GetConn", addr |-> NoAddr]
    /\ stack' = <<Frame("GetConn", nodes, NoAddr)>>
    /\ status' = "running"
    /\ ret' = NoRet
    /\ events' = <<>>
    /\ UNCHANGED <<config, http2Client>>
    /\ resp' = NoResp
    /\ UNCHANGED tunnelVars

GetConnBody ==
    /\ At("GetConn", "entry")
    /\ LET f == Top
       IN  IF IsEmptyChain(f.nodes)
           THEN Returns(NilConn, ErrEmptyChain)
           ELSE IF Http2Enabled
           THEN IF ~SliceInRange(f.nodes)
                THEN Panics
                ELSE LET rest == AfterShortcut(f.nodes)
                     IN  IF Len(rest) = 0
                         THEN Calls("tail", Frame("getHttp2Conn", <<>>, NoAddr))
                         ELSE CallsFrom([f EXCEPT !.nodes = rest, !.pc = "tail_pc"],
                                        Frame("travelNodes", rest, NoAddr))
           ELSE Calls("tail_pc", Frame("travelNodes", f.nodes, NoAddr))
    /\ UNCHANGED <<config, http2Client, call, events>>
    /\ UNCHANGED <<resp, tunnelVars>>

\* return c.travelNodes(nodes...): the *ProxyConn becomes a net.Conn, and a
\* nil pointer becomes an interface value that is not nil
GetConnReturn ==
    /\ At("GetConn", "tail_pc")
    /\ Returns(IF ret.conn = NilConn THEN TypedNilConn ELSE ret.conn, ret.err)
    /\ UNCHANGED <<config, http2Client, call, events>>
    /\ UNCHANGED <<resp, tunnelVars>>

\* ------------------------------------------------------------ dialWithNodes
NeverDirect(ns) == FALSE

\* line 124: with no node to go through, the address is dialled directly
IsDirect(ns) == Len(ns) = 0

\* lines 124-133
DialWithNodesEntry ==
    /\ At("dialWithNodes", "entry")
    /\ LET f == Top
       IN  IF IsDirect(f.nodes)
           THEN \E ok \in BOOLEAN :
                  /\ events' = Append(events, Ev(f.fn, "Dial", f.addr, NilConn, ok))
                  /\ IF ok THEN Returns(TcpConn(f.addr), NoErr)
                           ELSE Returns(NilConn, ErrDial)
           ELSE /\ events' = events
                /\ IF Http2Enabled
                   THEN IF ~SliceInRange(f.nodes)
                        THEN Panics
                        ELSE LET rest == AfterShortcut(f.nodes)
                             IN  IF Len(rest) = 0
                                 THEN Calls("tail", Frame("http2Connect", <<>>, f.addr))
                                 ELSE CallsFrom([f EXCEPT !.nodes = rest, !.pc = "travelled"],
                                                Frame("travelNodes", rest, NoAddr))
                   ELSE Calls("travelled", Frame("travelNodes", f.nodes, NoAddr))
    /\ UNCHANGED <<config, http2Client, call>>
    /\ UNCHANGED <<resp, tunnelVars>>

ConnectOnly(fn, pc, addr, ok) == <<Ev(fn, "Connect", addr, pc, ok)>>

\* the events of pc.Connect(addr), and of pc.Close() when it failed
ConnectOrClose(fn, pc, addr, ok) ==
    IF ok THEN <<Ev(fn, "Connect", addr, pc, TRUE)>>
          ELSE <<Ev(fn, "Connect", addr, pc, FALSE), Ev(fn, "Close", NoAddr, pc, TRUE)>>

\* lines 134-143
DialWithNodesConnect ==
    /\ At("dialWithNodes", "travelled")
    /\ LET f == Top
       IN  IF ret.err # NoErr
           THEN /\ events' = events
                /\ Returns(NilConn, ret.err)
           ELSE \E ok \in BOOLEAN :
                  /\ events' = events \o ConnectOrClose(f.fn, ret.conn, f.addr, ok)
                  /\ IF ok THEN Returns(ret.conn, NoErr)
                           ELSE Returns(NilConn, ErrConnect)
    /\ UNCHANGED <<config, http2Client, call>>
    /\ UNCHANGED <<resp, tunnelVars>>

\* -------------------------------------------------------------- travelNodes
NoDeferredClose(fn, conn, err) == <<>>

\* the deferred function, lines 147-152: what it closes
DeferredClose(fn, conn, err) ==
    IF err # NoErr /\ conn # NilConn
    THEN <<Ev(fn, "Close", NoAddr, conn, TRUE)>>
    ELSE <<>>

\* the deferred function, lines 147-152: the named result conn it leaves
DeferredConn(conn, err) ==
    IF err # NoErr /\ conn # NilConn THEN NilConn ELSE conn

\* travelNodes returns with its named results (conn, err) after doing evs
TravelReturns(evs, conn, err) ==
    /\ events' = events \o evs \o DeferredClose("travelNodes", conn, err)
    /\ Returns(DeferredConn(conn, err), err)

\* line 157: whether the stream to nodes[0] is opened through the shortcut
OpensByTunnel == Http2Enabled

\* lines 154-164: open the stream to nodes[0]
TravelNodesOpen ==
    /\ At("travelNodes", "entry")
    /\ LET f == Top
       IN  IF Len(f.nodes) = 0
           THEN Panics /\ events' = events
           ELSE LET node == f.nodes[1]
                IN  IF OpensByTunnel
                    THEN /\ Calls("opened", Frame("http2Connect", <<>>, node.Addr))
                         /\ events' = events
                    ELSE \E ok \in BOOLEAN :
                           LET ev == Ev(f.fn, "Dial", node.Addr, NilConn, ok)
                           IN  IF ok
                               THEN /\ Goes([f EXCEPT !.cc = TcpConn(node.Addr),
                                                      !.pc = "handshake"])
                                    /\ events' = Append(events, ev)
                               ELSE TravelReturns(<<ev>>, f.conn, ErrDial)
    /\ UNCHANGED <<config, http2Client, call>>
    /\ UNCHANGED <<resp, tunnelVars>>

\* lines 158, 162-164: http2Connect has returned
TravelNodesOpened ==
    /\ At("travelNodes", "opened")
    /\ LET f == Top
       IN  IF ret.err # NoErr
           THEN TravelReturns(<<>>, f.conn, ret.err)
           ELSE /\ Goes([f EXCEPT !.cc = ret.conn, !.pc = "handshake"])
                /\ events' = events
    /\ UNCHANGED <<config, http2Client, call>>
    /\ UNCHANGED <<resp, tunnelVars>>

\* lines 165-171: the layer of nodes[0] (setKeepAlive changes no state here)
TravelNodesHandshake ==
    /\ At("travelNodes", "handshake")
    /\ LET f == Top
           node == f.nodes[1]
           pc == NewProxyConn(f.cc, node)
       IN  \E ok \in BOOLEAN :
             LET ev == Ev(f.fn, "Handshake", node.Addr, pc, ok)
             IN  IF ok
                 THEN /\ Goes([f EXCEPT !.conn = pc, !.i = 1, !.pc = "loop"])
                      /\ events' = Append(events, ev)
                 ELSE TravelReturns(<<ev>>, f.conn, ErrHandshake)
    /\ UNCHANGED <<config, http2Client, call>>
    /\ UNCHANGED <<resp, tunnelVars>>

RangeFromZero(ns, i) == ns[i]

\* line 172: the node of iteration i >= 1 of `range nodes[1:]`
LoopNode(ns, i) == ns[i + 1]

\* lines 172-175, 182: the next hop's Connect, or the end of the loop
TravelNodesConnect ==
    /\ At("travelNodes", "loop")
    /\ LET f == Top
       IN  IF f.i >= Len(f.nodes)
           THEN TravelReturns(<<>>, f.conn, NoErr)
           ELSE \E ok \in BOOLEAN :
                  LET ev == Ev(f.fn, "Connect", LoopNode(f.nodes, f.i).Addr, f.conn, ok)
                  IN  IF ok
                      THEN /\ Goes([f EXCEPT !.pc = "layer"])
                           /\ events' = Append(events, ev)
                      ELSE TravelReturns(<<ev>>, f.conn, ErrConnect)
    /\ UNCHANGED <<config, http2Client, call>>
    /\ UNCHANGED <<resp, tunnelVars>>

\* lines 176-180: the next hop's handshake on top of conn
TravelNodesLayer ==
    /\ At("travelNodes", "layer")
    /\ LET f == Top
           node == LoopNode(f.nodes, f.i)
           pc == NewProxyConn(f.conn, node)
       IN  \E ok \in BOOLEAN :
             LET ev == Ev(f.fn, "Handshake", node.Addr, pc, ok)
             IN  IF ok
                 THEN /\ Goes([f EXCEPT !.conn = pc, !.i = f.i + 1, !.pc = "loop"])
                      /\ events' = Append(events, ev)
                 ELSE TravelReturns(<<ev>>, f.conn, ErrHandshake)
    /\ UNCHANGED <<config, http2Client, call>>
    /\ UNCHANGED <<resp, tunnelVars>>

\* ------------------------------------------------------------- http2Connect
NoShortcutLayer(conn) == conn

\* line 226: the shortcut node's layer over the tunnel stream
ShortcutLayer(conn) == NewProxyConn(conn, nodes[http2NodeIndex + 1])

\* line 222
Http2ConnectEntry ==
    /\ At("http2Connect", "entry")
    /\ Calls("got", Frame("getHttp2Conn", <<>>, NoAddr))
    /\ UNCHANGED <<config, http2Client, call, events>>
    /\ UNCHANGED <<resp, tunnelVars>>

\* lines 223-231
Http2ConnectConnect ==
    /\ At("http2Connect", "got")
    /\ LET f == Top
       IN  IF ret.err # NoErr
           THEN /\ events' = events
                /\ Returns(NilConn, ret.err)
           ELSE LET pc == ShortcutLayer(ret.conn)
                IN  \E ok \in BOOLEAN :
                      /\ events' = events \o ConnectOrClose(f.fn, pc, f.addr, ok)
                      /\ IF ok THEN Returns(ret.conn, NoErr)
                               ELSE Returns(NilConn, ErrConnect)
    /\ UNCHANGED <<config, http2Client, call>>
    /\ UNCHANGED <<resp, tunnelVars>>

\* ------------------------------------------------------------- getHttp2Conn
\* lines 187-209: the request is built and handed to the client, which
\* dials (DialTLS) when its transport has no connection to the host
GetHttp2ConnEntry ==
    /\ At("getHttp2Conn", "entry")
    /\ LET f == Top
       IN  IF ~Http2Enabled
           THEN Returns(NilConn, ErrNotEnabled)
           ELSE LET host == nodes[http2NodeIndex + 1].Addr
                IN  IF http2Client.up
                    THEN Goes([f EXCEPT !.addr = host, !.pc = "respond"])
                    ELSE CallsFrom([f EXCEPT !.addr = host, !.pc = "dialled"],
                                   Frame("DialTLS", http2Client.dialNodes, host))
    /\ UNCHANGED <<config, http2Client, call, events>>
    /\ UNCHANGED <<resp, tunnelVars>>

\* line 209: the transport's dial has returned
GetHttp2ConnDialled ==
    /\ At("getHttp2Conn", "dialled")
    /\ IF ret.err # NoErr
       THEN /\ Returns(NilConn, ret.err)
            /\ events' = Append(events, Ev("getHttp2Conn", "Do", Top.addr, NilConn, FALSE))
            /\ UNCHANGED http2Client
       ELSE /\ Goes([Top EXCEPT !.pc = "respond"])
            /\ http2Client' = [http2Client EXCEPT !.up = TRUE]
            /\ events' = events
    /\ UNCHANGED <<config, call>>
    /\ UNCHANGED <<resp, tunnelVars>>

Responses == {StatusOK, StatusUnavailable, StatusNotFound, ErrDo}

OnlyUnavailable(r) == r = StatusUnavailable

\* line 213: whether a response with status r is a failure
IsFailure(r) == r # StatusOK

\* lines 209-217: the response to the CONNECT request
GetHttp2ConnRespond ==
    /\ At("getHttp2Conn", "respond")
    /\ LET f == Top
       IN  \E r \in Responses :
             LET ev == Ev(f.fn, "Do", f.addr, NilConn, r = StatusOK)
             IN  IF r = ErrDo
                 THEN /\ events' = Append(events, ev)
                      /\ resp' = NoResp
                      /\ Returns(NilConn, ErrDo)
                 ELSE IF IsFailure(r)
                 THEN /\ events' = events \o <<ev, Ev(f.fn, "CloseBody", f.addr, NilConn, TRUE)>>
                      /\ resp' = [status |-> r, closed |-> TRUE]
                      /\ Returns(NilConn, r)
                 ELSE /\ events' = Append(events, ev)
                      /\ resp' = [status |-> r, closed |-> FALSE]
                      /\ Returns(Http2Conn(f.addr), NoErr)
    /\ UNCHANGED <<config, http2Client, call>>
    /\ UNCHANGED tunnelVars

\* ------------------------------------------------- the client's dial function
\* line 86
DialTLSEntry ==
    /\ At("DialTLS", "entry")
    /\ Calls("dialled", Frame("dialWithNodes", Top.nodes, Top.addr))
    /\ UNCHANGED <<config, http2Client, call, events>>
    /\ UNCHANGED <<resp, tunnelVars>>

\* lines 87-90
DialTLSReturn ==
    /\ At("DialTLS", "dialled")
    /\ IF ret.err # NoErr
       THEN Returns(ret.conn, ret.err)
       ELSE Returns(TlsClient(ret.conn), NoErr)
    /\ UNCHANGED <<config, http2Client, call, events>>
    /\ UNCHANGED <<resp, tunnelVars>>

\* the transport's connection to the shortcut node goes away between calls
Http2ConnLost ==
    /\ Quiet
    /\ http2Client.up
    /\ http2Client' = [http2Client EXCEPT !.up = FALSE]
    /\ Forgotten
    /\ UNCHANGED config
    /\ UNCHANGED tunnelVars

\* ------------------------------------------------------------ specification
Next ==
    \/ \E batch \in NodeBatches(Len(nodes)) : AddProxyNode(batch)
    \/ \E snode \in StringBatches(Len(nodes)) : AddProxyNodeString(snode)
    \/ TryEnableHttp2
    \/ \E addr \in TargetAddrs : Dial(addr)
    \/ DialBody
    \/ TailReturn
    \/ GetConn
    \/ GetConnBody
    \/ GetConnReturn
    \/ DialWithNodesEntry
    \/ DialWithNodesConnect
    \/ TravelNodesOpen
    \/ TravelNodesOpened
    \/ TravelNodesHandshake
    \/ TravelNodesConnect
    \/ TravelNodesLayer
    \/ Http2ConnectEntry
    \/ Http2ConnectConnect
    \/ GetHttp2ConnEntry
    \/ GetHttp2ConnDialled
    \/ GetHttp2ConnRespond
    \/ DialTLSEntry
    \/ DialTLSReturn
    \/ Http2ConnLost

Spec == Init /\ [][Next]_vars

TypeOK ==
    /\ Len(nodes) <= MaxNodes
    /\ \A p \in DOMAIN nodes : \E t \in Transports : nodes[p] = NodeAt(p - 1, t)
    /\ lastNode \in NoIndex..(MaxNodes - 1)
    /\ http2NodeIndex \in NoIndex..(MaxNodes - 1)
    /\ http2Enabled \in BOOLEAN
    /\ status \in {"idle", "running", "returned", "panicked"}
    /\ (status = "running") = (stack # <<>> /\ status # "panicked")

\* ------------------------------------------- concurrent tunnel openings
\* Two callers Dial through an enabled shortcut whose node is the last of the
\* chain, each at its own pace: Dial, dialWithNodes and http2Connect lead to
\* getHttp2Conn, which makes a pipe, sends the request with the pipe's read
\* end as body, and wraps the response body and the pipe's write end.
\* Pipes and response bodies are numbered in the order they are made.
mainVars == <<config, http2Client, status, call, stack, ret, events, resp>>

\* a chain whose shortcut has been enabled and used once
InitTunnels ==
    /\ nodes = <<NodeAt(0, "http2")>>
    /\ lastNode = 0
    /\ http2NodeIndex = FirstHttp2Index(nodes)
    /\ http2Enabled = TRUE
    /\ http2Client = [InitHttp2Client(<<>>) EXCEPT !.up = TRUE]
    /\ status = "idle"
    /\ call = NoCall
    /\ stack = <<>>
    /\ ret = NoRet
    /\ events = <<>>
    /\ resp = NoResp
    /\ NoTunnels

FirstPipe(ps) == 1

\* line 191: io.Pipe() makes a pipe that no earlier call made
NewPipe(ps) == Len(ps) + 1

\* lines 99-104, 124-131, 222, 187-190: caller c's Dial reaches getHttp2Conn
TunnelDial(c) ==
    /\ tcalls[c].pc = "idle"
    /\ Http2Enabled
    /\ AfterShortcut(nodes) = <<>>
    /\ tcalls' = [tcalls EXCEPT ![c].pc = "pipe"]
    /\ UNCHANGED <<mainVars, pipes, bodies>>

\* line 191: pr, pw := io.Pipe()
TunnelPipe(c) ==
    /\ tcalls[c].pc = "pipe"
    /\ LET id == NewPipe(pipes)
       IN  /\ pipes' = IF id \in DOMAIN pipes THEN pipes ELSE Append(pipes, <<>>)
           /\ tcalls' = [tcalls EXCEPT ![c].pw = id, ![c].pc = "do"]
    /\ UNCHANGED <<mainVars, bodies>>

\* lines 193-216: the request with body pr is sent; a 200 response brings a
\* body of its own, fed by the remote end from what it gets of this request
TunnelDo(c) ==
    /\ tcalls[c].pc = "do"
    /\ \E r \in Responses :
          IF r = ErrDo \/ IsFailure(r)
          THEN /\ tcalls' = [tcalls EXCEPT ![c].pc = "failed"]
               /\ bodies' = bodies
          ELSE /\ bodies' = Append(bodies, [from |-> tcalls[c].pw, data |-> <<>>])
               /\ tcalls' = [tcalls EXCEPT ![c].body = Len(bodies) + 1, ![c].pc = "conn"]
    /\ UNCHANGED <<mainVars, pipes>>

\* line 217: &http2Conn{r: resp.Body, w: pw}
TunnelConn(c) ==
    /\ tcalls[c].pc = "conn"
    /\ tcalls' = [tcalls EXCEPT ![c].r = tcalls[c].body, ![c].w = tcalls[c].pw,
                                ![c].pc = "connect"]
    /\ UNCHANGED <<mainVars, pipes, bodies>>

\* lines 226-231: http2Connect's Connect; Dial returns the stream or fails
TunnelConnect(c) ==
    /\ tcalls[c].pc = "connect"
    /\ \E ok \in BOOLEAN :
          tcalls' = [tcalls EXCEPT ![c].pc = IF ok THEN "open" ELSE "closed"]
    /\ UNCHANGED <<mainVars, pipes, bodies>>

\* caller c writes a byte on its stream: http2Conn.Write writes to w. The
\* byte names its writer
TunnelWrite(c) ==
    /\ tcalls[c].pc = "open"
    /\ tcalls[c].wrote < MaxWrites
    /\ pipes' = [pipes EXCEPT ![tcalls[c].w] = Append(@, c)]
    /\ tcalls' = [tcalls EXCEPT ![c].wrote = @ + 1]
    /\ UNCHANGED <<mainVars, bodies>>

\* the client sends what it reads from a request's body, and the remote end
\* answers on the same exchange: here it echoes
TunnelRelay(b) ==
    /\ pipes[bodies[b].from] # <<>>
    /\ bodies' = [bodies EXCEPT ![b].data = Append(@, Head(pipes[bodies[b].from]))]
    /\ pipes' = [pipes EXCEPT ![bodies[b].from] = Tail(@)]
    /\ UNCHANGED <<mainVars, tcalls>>

\* caller c reads a byte from its stream: http2Conn.Read reads from r
TunnelRead(c) ==
    /\ tcalls[c].pc = "open"
    /\ bodies[tcalls[c].r].data # <<>>
    /\ tcalls' = [tcalls EXCEPT ![c].got = Append(@, Head(bodies[tcalls[c].r].data))]
    /\ bodies' = [bodies EXCEPT ![tcalls[c].r].data = Tail(@)]
    /\ UNCHANGED <<mainVars, pipes>>

NextTunnels ==
    \/ \E c \in Callers : TunnelDial(c)
    \/ \E c \in Callers : TunnelPipe(c)
    \/ \E c \in Callers : TunnelDo(c)
    \/ \E c \in Callers : TunnelConn(c)
    \/ \E c \in Callers : TunnelConnect(c)
    \/ \E c \in Callers : TunnelWrite(c)
    \/ \E b \in DOMAIN bodies : TunnelRelay(b)
    \/ \E c \in Callers : TunnelRead(c)

SpecTunnels == InitTunnels /\ [][NextTunnels]_vars

\* ------------------------------------------------- vocabulary of the claims
IsPrefix(a, b) == Len(a) <= Len(b) /\ SubSeq(b, 1, Len(a)) = a

Last(s) == s[Len(s)]

\* what an event did, to which address, on which connection
Step(op, addr, on) == [op |-> op, addr |-> addr, on |-> on]

StepsOf(evs) == [n \in 1..Len(evs) |-> Step(evs[n].op, evs[n].addr, evs[n].on)]

\* a travelNodes call is in progress (or was cut short by a panic)
TravelActive ==
    /\ status \in {"running", "panicked"}
    /\ \E n \in DOMAIN stack : stack[n].fn = "travelNodes"

\* travelNodes has just returned (ret) to its caller
TravelReturned ==
    /\ status = "running"
    /\ Top.pc \in {"travelled", "tail_pc"}

\* the node list of that travelNodes call
TravelList ==
    IF TravelActive
    THEN stack[CHOOSE n \in DOMAIN stack : stack[n].fn = "travelNodes"].nodes
    ELSE Top.nodes

\* the stream, with its first j layers
LayerOf(stream, ns, j) == [stream EXCEPT !.layers = SubSeq(ns, 1, j)]

ShortcutNode == nodes[http2NodeIndex + 1]

TunnelStream == [base |-> "http2", to |-> ShortcutNode.Addr, layers |-> <<>>]

RawStream(addr) == [base |-> "tcp", to |-> addr, layers |-> <<>>]

\* the stream a chain over ns is built on
StreamFor(ns) == IF http2Enabled THEN TunnelStream ELSE RawStream(ns[1].Addr)

\* opening the stream to ns[1]: a raw dial, or a tunnel request followed by
\* the shortcut node's Connect to ns[1]
OpenSteps(ns) ==
    IF http2Enabled
    THEN <<Step("Do", ShortcutNode.Addr, NilConn),
           Step("Connect", ns[1].Addr, LayerOf(TunnelStream, <<ShortcutNode>>, 1))>>
    ELSE <<Step("Dial", ns[1].Addr, NilConn)>>

\* Connect to and handshake of ns[j], ns[j+1], ... on top of the layer of ns[j-1]
RECURSIVE HopSteps(_, _, _)
HopSteps(stream, ns, j) ==
    IF j > Len(ns) THEN <<>>
    ELSE <<Step("Connect", ns[j].Addr, LayerOf(stream, ns, j - 1)),
           Step("Handshake", ns[j].Addr, LayerOf(stream, ns, j))>>
         \o HopSteps(stream, ns, j + 1)

\* everything a successful chain build over ns does, in order
TravelSteps(ns) ==
    OpenSteps(ns)
    \o <<Step("Handshake", ns[1].Addr, LayerOf(StreamFor(ns), ns, 1))>>
    \o HopSteps(StreamFor(ns), ns, 2)

\* the events of the running call outside the shortcut client's own dial
IsHop(e) == ~e.inDial /\ e.op \in {"Dial", "Do", "Connect", "Handshake"}

Hops == SelectSeq(events, IsHop)

\* the connections closed so far: Close on a layer closes all beneath it
ClosedConns ==
    UNION {LayersBeneath(events[n].on) : n \in {m \in DOMAIN events : events[m].op = "Close"}}

\* ------------------------------------------------------------------ claims

\* C1: while travelNodes runs over [n0..nk], what it has done so far is an
\* initial part of: open the stream to n0, handshake n0, then for i = 1..k
\* Connect(ni.Addr) on the layer of n(i-1) and the handshake of ni on top of
\* it; every step but the latest has succeeded; and when it returns without
\* error every step was done and the connection returned is the layer of nk.
C1_TravelOrder ==
    (TravelActive \/ TravelReturned) =>
        LET ns == TravelList
            hops == Hops
            want == TravelSteps(ns)
        IN  /\ IsPrefix(StepsOf(hops), want)
            /\ \A n \in 1..(Len(hops) - 1) : hops[n].ok
            /\ (TravelReturned /\ ret.err = NoErr) =>
                  /\ Len(hops) = Len(want)
                  /\ Last(hops).ok
                  /\ ret.conn = LayerOf(StreamFor(ns), ns, Len(ns))

C1_Witness ==
    /\ TravelReturned
    /\ ret.err = NoErr
    /\ ~http2Enabled
    /\ Len(TravelList) >= 3

\* event n is the failed Connect or handshake of a hop i >= 1 of travelNodes
FailedLaterHop(n) ==
    /\ ~events[n].ok
    /\ events[n].fn = "travelNodes"
    /\ \/ events[n].op = "Connect"
       \/ events[n].op = "Handshake" /\ Len(events[n].on.layers) >= 2

\* the connection built before event e was tried
BuiltBefore(e) ==
    IF e.op = "Handshake" THEN [e.on EXCEPT !.layers = Front(@)] ELSE e.on

\* C2: once the Connect or the handshake of a hop i >= 1 has failed in
\* travelNodes, the call has returned, nothing but closing has been done after
\* the failure, the layers of hops 0..i-1 and the stream under them are
\* closed, and what travelNodes returned is a nil connection with the error.
C2_LaterHopFailureUnwinds ==
    \A n \in DOMAIN events :
        FailedLaterHop(n) =>
            LET built == BuiltBefore(events[n])
            IN  /\ ~TravelActive
                /\ \A m \in (n + 1)..Len(events) : events[m].op = "Close"
                /\ \A j \in 0..Len(built.layers) :
                      LayerOf(built, built.layers, j) \in ClosedConns
                /\ TravelReturned => ret.conn = NilConn /\ ret.err # NoErr

C2_Witness ==
    /\ TravelReturned
    /\ Len(TravelList) >= 3
    /\ \E n \in DOMAIN events :
          /\ FailedLaterHop(n)
          /\ events[n].op = "Handshake"
          /\ Len(events[n].on.layers) = 2

\* C3: once the handshake of nodeList[0] has failed in travelNodes, the
\* stream that was opened to nodeList[0] is closed.
C3_FirstHandshakeFailureClosesStream ==
    \A n \in DOMAIN events :
        ( /\ ~events[n].ok
          /\ events[n].fn = "travelNodes"
          /\ events[n].op = "Handshake"
          /\ Len(events[n].on.layers) = 1 )
        => LayerOf(events[n].on, <<>>, 0) \in ClosedConns

\* a raw chain to addr through ns: dial and handshake ns[1], connect to and
\* handshake each next node, then Connect(addr) on the last layer
RawDialSteps(ns, addr) ==
    IF ns = <<>>
    THEN <<Step("Dial", addr, NilConn)>>
    ELSE <<Step("Dial", ns[1].Addr, NilConn),
           Step("Handshake", ns[1].Addr, LayerOf(RawStream(ns[1].Addr), ns, 1))>>
         \o HopSteps(RawStream(ns[1].Addr), ns, 2)
         \o <<Step("Connect", addr, LayerOf(RawStream(ns[1].Addr), ns, Len(ns)))>>

IsDialEvent(e) == e.inDial

\* the events of the shortcut client's own dial
DialEvents == SelectSeq(events, IsDialEvent)

\* C4: the shortcut client's dial function, for a shortcut at index k, does
\* not panic, opens no tunnel stream and does not enter the shortcut path
\* again; when it returns a connection, it has reached the shortcut node's
\* address by a raw chain through nodes[0..k-1].
C4_ShortcutDialUsesPrefix ==
    /\ InDialTLS =>
          /\ status # "panicked"
          /\ \A n \in DOMAIN stack : stack[n].fn \in {"http2Connect", "getHttp2Conn"} =>
                \A m \in 1..n : stack[m].fn # "DialTLS"
    /\ \A n \in DOMAIN events : events[n].inDial => events[n].op # "Do"
    /\ (At("getHttp2Conn", "dialled") /\ ret.err = NoErr) =>
          StepsOf(DialEvents) =
              RawDialSteps(SubSeq(nodes, 1, http2NodeIndex), ShortcutNode.Addr)

\* C5: GetConn on a chain with zero nodes does nothing to any collaborator
\* and returns ErrEmptyChain with a nil connection.
C5_EmptyChainGetConn ==
    (call.fn = "GetConn" /\ Len(nodes) = 0) =>
        /\ events = <<>>
        /\ status \in {"running", "returned"}
        /\ status = "running" => Len(stack) = 1 /\ Top.fn = "GetConn" /\ Top.pc = "entry"
        /\ status = "returned" => ret = [conn |-> NilConn, err |-> ErrEmptyChain]

C5_Witness ==
    /\ call.fn = "GetConn"
    /\ Len(nodes) = 0
    /\ status = "returned"
    /\ ret.err = ErrEmptyChain

\* C6: whenever the shortcut is enabled, http2NodeIndex is the smallest index
\* of a node of the registry whose transport is "http2"; and TryEnableHttp2
\* leaves the node list as it was.
C6_FirstShortcutNode ==
    /\ [](http2Enabled =>
            /\ http2NodeIndex \in 0..(Len(nodes) - 1)
            /\ nodes[http2NodeIndex + 1].Transport = "http2"
            /\ \A j \in 0..(http2NodeIndex - 1) : nodes[j + 1].Transport # "http2")
    /\ [][TryEnableHttp2 => nodes' = nodes]_vars

C6_Witness ==
    /\ http2Enabled
    /\ http2NodeIndex = 1
    /\ Len(nodes) = 3
    /\ nodes[3].Transport = "http2"

NoShortcutNode == \A p \in DOMAIN nodes : nodes[p].Transport # "http2"

\* C7: while no node of the registry has the "http2" transport, the shortcut
\* is disabled with http2NodeIndex = -1, no call sends a tunnel request or
\* uses the shortcut client's dial, the first thing a call does is a raw
\* dial, and a call that succeeded did one.
C7_NoShortcutNodeRawOnly ==
    NoShortcutNode =>
        /\ ~http2Enabled
        /\ http2NodeIndex = NoIndex
        /\ \A n \in DOMAIN events : events[n].op # "Do" /\ ~events[n].inDial
        /\ events # <<>> => events[1].op = "Dial"
        /\ (status = "returned" /\ ret.err = NoErr) => events # <<>>

C7_Witness ==
    /\ NoShortcutNode
    /\ lastNode # NoIndex
    /\ status = "returned"
    /\ call.fn = "GetConn"
    /\ ret.err = NoErr

HasColon(addr) == \E n \in DOMAIN addr : addr[n] = ":"

WithDefaultPort(addr) == addr \o <<":", "8", "0">>

\* the target of the latest Dial
Target == IF HasColon(call.addr) THEN call.addr ELSE WithDefaultPort(call.addr)

\* the nodes after the shortcut node
Rest == SubSeq(nodes, http2NodeIndex + 2, Len(nodes))

\* C8: a Dial that succeeded on a non-empty chain went through every node in
\* registry order and ended with Connect(target) on the terminal hop. Without
\* shortcut: the chain over all nodes. With the shortcut at k: the tunnel
\* request to nodes[k], then the chain over the nodes after k; the shortcut
\* client's own dial, when it ran, went through nodes[0..k-1].
C8_DialThroughEveryNode ==
    (status = "returned" /\ call.fn = "Dial" /\ ret.err = NoErr /\ Len(nodes) >= 1) =>
        /\ Len(events) = Len(Hops) + Len(DialEvents)
        /\ IF ~http2Enabled
           THEN LET end == LayerOf(RawStream(nodes[1].Addr), nodes, Len(nodes))
                IN  /\ StepsOf(Hops) = TravelSteps(nodes) \o <<Step("Connect", Target, end)>>
                    /\ ret.conn = end
                    /\ DialEvents = <<>>
           ELSE /\ IF Rest = <<>>
                   THEN /\ StepsOf(Hops) =
                             <<Step("Do", ShortcutNode.Addr, NilConn),
                               Step("Connect", Target,
                                    LayerOf(TunnelStream, <<ShortcutNode>>, 1))>>
                        /\ ret.conn = TunnelStream
                   ELSE LET end == LayerOf(TunnelStream, Rest, Len(Rest))
                        IN  /\ StepsOf(Hops) =
                                  TravelSteps(Rest) \o <<Step("Connect", Target, end)>>
                            /\ ret.conn = end
                /\ \/ DialEvents = <<>>
                   \/ StepsOf(DialEvents) =
                         RawDialSteps(SubSeq(nodes, 1, http2NodeIndex), ShortcutNode.Addr)

C8_Witness ==
    /\ status = "returned"
    /\ call.fn = "Dial"
    /\ ret.err = NoErr
    /\ http2Enabled
    /\ Len(Rest) >= 2
    /\ DialEvents # <<>>

\* C9: a GetConn with the shortcut enabled at index k, none of whose
\* collaborators failed, ends by returning: the tunnel stream itself after
\* the tunnel request alone when k is the last index, and otherwise the chain
\* over nodes[k+1..] built on the tunnel stream, with no further Connect.
C9_GetConnThroughShortcut ==
    ( /\ call.fn = "GetConn"
      /\ http2Enabled
      /\ status \in {"returned", "panicked"}
      /\ \A n \in DOMAIN events : events[n].ok )
    => /\ status = "returned"
       /\ ret.err = NoErr
       /\ IF Rest = <<>>
          THEN /\ StepsOf(Hops) = <<Step("Do", ShortcutNode.Addr, NilConn)>>
               /\ ret.conn = TunnelStream
          ELSE /\ StepsOf(Hops) = TravelSteps(Rest)
               /\ ret.conn = LayerOf(TunnelStream, Rest, Len(Rest))

C11_EmptyChainDialsDirectly ==
    (call.fn = "Dial" /\ Len(nodes) = 0) =>
        /\ status \in {"running", "returned"}
        /\ IsPrefix(StepsOf(events), <<Step("Dial", Target, NilConn)>>)
        /\ status = "returned" =>
              /\ Len(events) = 1
              /\ ret = IF events[1].ok
                       THEN [conn |-> RawStream(Target), err |-> NoErr]
                       ELSE [conn |-> NilConn, err |-> ErrDial]

C11_Witness ==
    /\ call.fn = "Dial"
    /\ Len(nodes) = 0
    /\ status = "returned"
    /\ events[1].ok
    /\ ret.conn = RawStream(Target)

\* C13: once getHttp2Conn has received a response whose status is not 200,
\* the body of that response is closed (the last thing the call did), and
\* what was returned is the status text as error and no stream; and a tunnel
\* stream is held or returned only after a response with status 200.
C13_Non200Fails ==
    /\ (resp # NoResp /\ resp.status # StatusOK) =>
          /\ resp.closed
          /\ Len(events) >= 2
          /\ Last(events) = [Last(events) EXCEPT !.fn = "getHttp2Conn", !.op = "CloseBody"]
          /\ events[Len(events) - 1].op = "Do"
          /\ ~events[Len(events) - 1].ok
          /\ ret.err = resp.status
          /\ ret.conn.base \in {"nil", "nil *ProxyConn"}
    /\ ( \/ ret.conn.base = "http2"
         \/ \E n \in DOMAIN stack : stack[n].cc.base = "http2" \/ stack[n].conn.base = "http2" )
       => resp = [status |-> StatusOK, closed |-> FALSE]

C13_Witness ==
    /\ resp = [status |-> StatusNotFound, closed |-> TRUE]
    /\ status = "returned"
    /\ call.fn = "Dial"
    /\ ret = [conn |-> NilConn, err |-> StatusNotFound]

\* the events that failed
Failed == {n \in DOMAIN events : ~events[n].ok}

\* the error a failed step gave
ErrOf(e) ==
    CASE e.op = "Dial" -> ErrDial
      [] e.op = "Connect" -> ErrConnect
      [] e.op = "Handshake" -> ErrHandshake
      [] e.op = "Do" -> IF resp = NoResp THEN ErrDo ELSE resp.status

IsClosing(e) == e.op \in {"Close", "CloseBody"}

\* C14: in a Dial or GetConn call one of whose steps failed, nothing was
\* attempted after the first failure (only closing, and the tunnel request
\* that failed because its own dial did), no step was attempted twice, and
\* the call, when it has returned, returned the error of that first failure
\* and a nil connection.
C14_FailureReturnsOriginatingError ==
    (call.fn \in {"Dial", "GetConn"} /\ Failed # {}) =>
        LET n == CHOOSE f \in Failed : \A g \in Failed : f <= g
        IN  /\ status # "panicked"
            /\ \A m \in (n + 1)..Len(events) :
                  \/ IsClosing(events[m])
                  \/ events[m].op = "Do" /\ ~events[m].ok /\ events[n].inDial
            /\ \A a, b \in DOMAIN events :
                  (a # b /\ ~IsClosing(events[a])) =>
                      StepsOf(events)[a] # StepsOf(events)[b]
            /\ status = "returned" =>
                  /\ ret.err = ErrOf(events[n])
                  /\ ret.conn = NilConn

\* C14 with the nil *ProxyConn that GetConn hands on counted as no connection
C14_ExceptTypedNil ==
    (call.fn \in {"Dial", "GetConn"} /\ Failed # {}) =>
        LET n == CHOOSE f \in Failed : \A g \in Failed : f <= g
        IN  /\ status # "panicked"
            /\ \A m \in (n + 1)..Len(events) :
                  \/ IsClosing(events[m])
                  \/ events[m].op = "Do" /\ ~events[m].ok /\ events[n].inDial
            /\ \A a, b \in DOMAIN events :
                  (a # b /\ ~IsClosing(events[a])) =>
                      StepsOf(events)[a] # StepsOf(events)[b]
            /\ status = "returned" =>
                  /\ ret.err = ErrOf(events[n])
                  /\ ret.conn \in {NilConn, TypedNilConn}
                  /\ ret.conn = TypedNilConn => call.fn = "GetConn"

\* C16: http2Enabled is true exactly when http2NodeIndex is an index of the
\* node list, in every state between operations and so in every state a
\* running call reads; enabled with index -1 does not occur.
C16_EnabledIffIndexValid ==
    /\ http2Enabled <=> http2NodeIndex \in 0..(Len(nodes) - 1)
    /\ ~(http2Enabled /\ http2NodeIndex = NoIndex)

C16_Witness ==
    /\ http2Enabled
    /\ http2NodeIndex = 2
    /\ status = "running"
    /\ Top.fn = "dialWithNodes"

\* event n is the failed Connect(target) of dialWithNodes on a built chain
FailedFinalConnect(n) ==
    /\ ~events[n].ok
    /\ events[n].fn = "dialWithNodes"
    /\ events[n].op = "Connect"

\* C17: once the Connect(target) of dialWithNodes on the terminal layer has
\* failed, the next thing done is Close on that layer, which closes every
\* layer and the stream under them, and dialWithNodes has returned a nil
\* connection with the error of the Connect.
C17_FinalConnectFailureCloses ==
    \A n \in DOMAIN events :
        FailedFinalConnect(n) =>
            LET pc == events[n].on
            IN  /\ Len(pc.layers) >= 1
                /\ Len(events) > n
                /\ events[n + 1].op = "Close"
                /\ events[n + 1].on = pc
                /\ \A j \in 0..Len(pc.layers) : LayerOf(pc, pc.layers, j) \in ClosedConns
                /\ Len(events) = n + 1 => ret = [conn |-> NilConn, err |-> ErrConnect]

C17_Witness ==
    /\ status = "returned"
    /\ call.fn = "Dial"
    /\ Len(events) >= 2
    /\ FailedFinalConnect(Len(events) - 1)
    /\ Len(events[Len(events) - 1].on.layers) = 3

IsHttp2ConnectEvent(e) == e.fn = "http2Connect"

\* what http2Connect itself did
Http2ConnectEvents == SelectSeq(events, IsHttp2ConnectEvent)

\* http2Connect has just returned (ret) to its caller
Http2ConnectReturned ==
    /\ status = "running"
    /\ \/ Top.fn = "travelNodes" /\ Top.pc = "opened"
       \/ Top.fn = "dialWithNodes" /\ Top.pc = "tail"

\* the shortcut node's layer over the tunnel stream
TunnelLayer == LayerOf(TunnelStream, <<ShortcutNode>>, 1)

\* C18, as stated: when http2Connect has returned, having obtained the
\* tunnel stream, what it did on the stream is one Connect(addr) and one
\* handshake for the shortcut node, the handshake only after a Connect that
\* succeeded; and after a failure the stream is closed and a nil connection
\* returned with the error.
C18_ConnectPlusHandshake ==
    (Http2ConnectReturned /\ Http2ConnectEvents # <<>>) =>
        LET mine == Http2ConnectEvents
        IN  /\ mine[1].op = "Connect"
            /\ mine[1].on = TunnelLayer
            /\ IF mine[1].ok
               THEN /\ Len(mine) >= 2
                    /\ mine[2].op = "Handshake"
                    /\ mine[2].ok => Len(mine) = 2 /\ ret.err = NoErr
                    /\ ~mine[2].ok => TunnelStream \in ClosedConns /\ ret.conn = NilConn
               ELSE /\ TunnelStream \in ClosedConns
                    /\ ret = [conn |-> NilConn, err |-> ErrConnect]

\* C18, amended: when http2Connect has returned, having obtained the tunnel
\* stream, what it did is exactly one Connect(addr) on the shortcut node's
\* layer over that stream, right after the tunnel request, and no handshake;
\* if the Connect failed it then closed the layer and with it the stream and
\* returned a nil connection with the error; if it succeeded it returned the
\* tunnel stream itself.
C18_ConnectWithoutHandshake ==
    (Http2ConnectReturned /\ Http2ConnectEvents # <<>>) =>
        LET mine == Http2ConnectEvents
        IN  /\ mine[1].op = "Connect"
            /\ mine[1].on = TunnelLayer
            /\ mine[1].addr \notin {NoAddr, ShortcutNode.Addr}
            /\ \A n \in DOMAIN events : events[n] = mine[1] =>
                  n >= 2 /\ events[n - 1].op = "Do" /\ events[n - 1].ok
            /\ \A n \in DOMAIN mine : mine[n].op # "Handshake"
            /\ IF mine[1].ok
               THEN /\ Len(mine) = 1
                    /\ ret = [conn |-> TunnelStream, err |-> NoErr]
               ELSE /\ Len(mine) = 2
                    /\ mine[2].op = "Close"
                    /\ mine[2].on = TunnelLayer
                    /\ TunnelStream \in ClosedConns
                    /\ ret = [conn |-> NilConn, err |-> ErrConnect]

C18_Witness ==
    /\ Http2ConnectReturned
    /\ Top.fn = "travelNodes"
    /\ Len(Http2ConnectEvents) = 2
    /\ TunnelStream \in ClosedConns

\* C19: no call panics; every dialWithNodes or GetConn about to evaluate
\* nodes[http2NodeIndex+1:] has http2NodeIndex + 1 <= len(nodes), the
\* dialWithNodes of the shortcut client's dial function included; and
\* travelNodes is never entered with an empty list.
C19_NoSliceOutOfRange ==
    /\ status # "panicked"
    /\ \A n \in DOMAIN stack :
          LET f == stack[n]
          IN  /\ ( /\ f.fn \in {"dialWithNodes", "GetConn"}
                   /\ f.pc = "entry"
                   /\ Len(f.nodes) > 0
                   /\ Http2Enabled )
                 => http2NodeIndex + 1 <= Len(f.nodes)
              /\ f.fn = "travelNodes" => Len(f.nodes) > 0

HasUnparsable(snode) == \E j \in DOMAIN snode : ParseProxyNode(snode[j]).err # NoErr

\* C15: an AddProxyNodeString whose batch holds an unparsable entry returns
\* the parser's error and leaves the node list as it was before the call.
C15_BadBatchAddsNothing ==
    [][\A snode \in StringBatches(Len(nodes)) :
          (AddProxyNodeString(snode) /\ HasUnparsable(snode)) =>
              /\ ret'.err = ErrParse
              /\ nodes' = nodes]_vars

\* a caller holds a stream
HasStream(c) == tcalls[c].r # NoPipe

\* C12: of two callers dialling through the shortcut in any interleaving,
\* each has a pipe and a response body the other does not have, the streams
\* they get share neither the read half nor the write half, each response
\* body is fed from the pipe of its own request, and no byte written by one
\* caller is readable or read on the other caller's stream.
C12_IndependentStreams ==
    \A c, d \in Callers :
        c # d =>
            /\ tcalls[c].pw # NoPipe => tcalls[c].pw # tcalls[d].pw
            /\ tcalls[c].body # NoPipe => tcalls[c].body # tcalls[d].body
            /\ HasStream(c) =>
                  /\ tcalls[c].r # tcalls[d].r
                  /\ tcalls[c].w # tcalls[d].w
                  /\ bodies[tcalls[c].r].from = tcalls[c].w
                  /\ \A n \in DOMAIN bodies[tcalls[c].r].data :
                        bodies[tcalls[c].r].data[n] # d
            /\ \A n \in DOMAIN tcalls[c].got : tcalls[c].got[n] # d

C12_Witness ==
    /\ \A c \in Callers : tcalls[c].pc = "open" /\ tcalls[c].got = <<c>>
    /\ tcalls[1].w = 2

====
